---- MODULE Spec2Model ----
(***************************************************************************)
(* A model of webpage_scraper2.py: the page fetcher (fetch_html), the node *)
(* stream builder (extract_more_elements), the plain-text composition of   *)
(* ScraperGUI._worker and the paginating renderer (create_pdf).            *)
(*                                                                         *)
(* Each component is a state machine of its own over the shared variables: *)
(* FetchSpec, ExtractSpec, ComposeSpec and PdfSpec.  A component's Init    *)
(* draws the inputs of one call and parks the other components' variables. *)
(***************************************************************************)
EXTENDS Integers, Sequences, FiniteSets, TLC

VARIABLES
    pc,                        \* position in the running function
    \* ---- fetch_html
    url,                       \* parameter url: the netloc, a sequence of pieces
    try_playwright_if_needed,  \* parameter
    text,                      \* local text: None or a markup
    final_url,                 \* local final_url
    need_render,               \* local need_render
    static_outcome,            \* what session.get / raise_for_status did
    driver,                    \* the sync_playwright() context: none/running/stopped
    browser,                   \* the launched chromium: none/running/closed
    pw_fail,                   \* the step of the fallback that raised, or "none"
    rendered,                  \* local rendered: None or a markup
    final,                     \* local final (page.url)
    ret,                       \* the returned pair
    ret_line,                  \* the return statement that ran: 93, 97 or 0
    raised,                    \* an exception left the function
    \* ---- extract_more_elements
    dom,                       \* main_content's descendants, in document order
    base_url,                  \* parameter base_url
    el,                        \* the loop position in main_content.descendants
    nodes,                     \* the node list (also create_pdf's parameter)
    made_by,                   \* history: the descendant that produced each node
    \* ---- ScraperGUI._worker, lines 507-530
    meta,                      \* title, author, date, tags (also create_pdf's)
    node_i,                    \* the loop position in meta['nodes']
    text_parts,                \* local text_parts
    full_text,                 \* local full_text
    \* ---- create_pdf
    fontname,                  \* register_dejavu()'s answer
    y,                         \* the cursor, in 1/1000 pt
    page,                      \* the page being drawn on, from 1
    lines,                     \* the wrapped lines still to draw
    size,                      \* the font size of those lines, in pt
    drawn,                     \* history: what drawString / drawImage drew, in order
    tmpdir,                    \* the mkdtemp directory: none/exists/removed
    tmp_files,                 \* the image urls downloaded into it
    saved,                     \* c.save() wrote the document
    \* ---- split_text_to_lines
    wrap_text,                 \* parameter text
    wrap_font,                 \* parameter fontname
    fontsize,                  \* parameter fontsize, in pt
    wrap_width,                \* parameter max_width, in 1/1000 pt
    wrapped                    \* the returned lines

fetchVars == <<url, try_playwright_if_needed, text, final_url, need_render,
               static_outcome, driver, browser, pw_fail, rendered, final, ret,
               ret_line>>

extractVars == <<dom, base_url, el, made_by>>

composeVars == <<text_parts, full_text>>

pdfVars == <<fontname, y, page, lines, size, drawn, tmpdir,
             tmp_files, saved>>

wrapVars == <<wrap_text, wrap_font, fontsize, wrap_width, wrapped>>

notFetchVars == <<extractVars, nodes, meta, node_i, composeVars, pdfVars, wrapVars>>

vars == <<pc, raised, fetchVars, extractVars, nodes, meta, node_i, composeVars,
          pdfVars, wrapVars>>

(***************************************************************************)
(* Strings.  A string is a sequence of runs [k, n]: n characters of kind   *)
(* k.  Kinds are "ws" (spaces), "nl" (a newline), "ch" (markup characters  *)
(* that form no marker), the marker spellings themselves, and literal      *)
(* text that starts and ends with a non-space character.  len, strip,      *)
(* lower, upper and the substring tests are computed on the runs.          *)
(***************************************************************************)
Run(k, n) == [k |-> k, n |-> n]

Ws(n) == Run("ws", n)

Ch(n) == Run("ch", n)

\* the two markers of line 69, each in a lower-case and a mixed-case spelling
NoscriptLc == Run("<noscript", 9)

NoscriptUc == Run("<NoScript", 9)

JsReqLc == Run("javascript required", 19)

JsReqUc == Run("JavaScript Required", 19)

\* literal text w, which starts and ends with a non-space character
Word(w) == Run(w, Len(w))

\* Python's None, kept comparable with markups and urls
None == << Run("None", 0) >>

RECURSIVE PyLen(_)
PyLen(s) == IF s = <<>> THEN 0 ELSE Head(s).n + PyLen(Tail(s))

\* "\n"
Nl == Run("nl", 1)

IsSpace(r) == r.k \in {"ws", "nl"}

RECURSIVE LStrip(_)
LStrip(s) == IF s /= <<>> /\ IsSpace(Head(s)) THEN LStrip(Tail(s)) ELSE s

RECURSIVE RStrip(_)
RStrip(s) ==
    IF s /= <<>> /\ IsSpace(s[Len(s)]) THEN RStrip(SubSeq(s, 1, Len(s) - 1)) ELSE s

\* str.strip()
Strip(s) == RStrip(LStrip(s))

LowerKind(k) ==
    CASE k = "<NoScript" -> "<noscript"
      [] k = "JavaScript Required" -> "javascript required"
      [] OTHER -> k

\* str.lower()
Lower(s) == [i \in 1..Len(s) |-> Run(LowerKind(s[i].k), s[i].n)]

\* marker in s
Contains(s, marker) == \E i \in 1..Len(s) : s[i].k = marker

\* Python truthiness of a str-or-None
Truthy(s) == s /= None /\ s /= <<>>

\* a or b
PyOr(a, b) == IF Truthy(a) THEN a ELSE b

(***************************************************************************)
(* URLs.  A netloc is a sequence of pieces whose concatenation is the      *)
(* host; "d in domain" is the substring test on the pieces.                *)
(***************************************************************************)
LowerPiece(p) ==
    CASE p = "WWW" -> "www"
      [] p = "TESLA" -> "tesla"
      [] p = "COM" -> "com"
      [] OTHER -> p

LowerHost(h) == [i \in 1..Len(h) |-> LowerPiece(h[i])]

IsSubstring(d, h) ==
    \E i \in 0..(Len(h) - Len(d)) : SubSeq(h, i + 1, i + Len(d)) = d

js_heavy_sites ==
    { <<"tesla", ".", "com">>, <<"twitter", ".", "com">>,
      <<"instagram", ".", "com">>, <<"facebook", ".", "com">>,
      <<"youtube", ".", "com">> }

\* urlparse raises ValueError on an unbalanced bracket in the netloc
UrlparseRaises(u) == \E i \in 1..Len(u) : u[i] = "["

\* lines 72-73: any(d in urlparse(url).netloc.lower() for d in js_heavy_sites)
HostIsJsHeavy(u) == \E d \in js_heavy_sites : IsSubstring(d, LowerHost(u))

Urls ==
    { <<"example", ".", "org">>,
      <<"tesla", ".", "com">>,
      <<"www", ".", "tesla", ".", "com">>,
      <<"WWW", ".", "TESLA", ".", "COM">>,
      <<"not", "tesla", ".", "com">>,
      <<"tesla", ".", "com", ".", "evil", ".", "org">>,
      <<"m", ".", "youtube", ".", "com">>,
      <<"tesla", ".", "org">>,
      <<"[", "example", ".", "org">> }

\* resp.url / page.url after redirects
ResolvedUrls == { <<"example", ".", "org">>, <<"cdn", ".", "example", ".", "org">> }

StaticMarkups ==
    { <<>>,
      << Ch(50) >>,
      << Ws(30), Ch(20) >>,
      << Ch(799) >>,
      << Ch(800) >>,
      << Ch(2000) >>,
      << Ws(1500), Ch(500) >>,
      << Ws(2), Ch(1996), Ws(2) >>,
      << Ws(3), Ch(2000), Ws(1) >>,
      << Ch(1000), Ws(100), Ch(900) >>,
      << Ch(1991), NoscriptLc >>,
      << Ch(991), NoscriptUc, Ch(1000) >>,
      << Ch(1981), JsReqLc >>,
      << JsReqUc, Ch(1981) >> }

RenderedMarkups ==
    { <<>>,
      << Ws(300) >>,
      << Ch(200) >>,
      << Ch(201) >>,
      << Ws(100), Ch(150), Ws(50) >>,
      << Ws(10), Ch(4000) >> }

(***************************************************************************)
(* The values a component's variables hold while another component runs.   *)
(***************************************************************************)
FetchIdle ==
    /\ url = <<>>
    /\ try_playwright_if_needed = FALSE
    /\ text = None
    /\ final_url = <<>>
    /\ need_render = FALSE
    /\ static_outcome = "pending"
    /\ driver = "none"
    /\ browser = "none"
    /\ pw_fail = "none"
    /\ rendered = None
    /\ final = None
    /\ ret = <<None, None>>
    /\ ret_line = 0

ExtractIdle ==
    /\ dom = <<>>
    /\ base_url = [origin |-> "", path |-> ""]
    /\ el = 0
    /\ made_by = <<>>

NoMeta == [title |-> <<>>, author |-> <<>>, date |-> <<>>, tags |-> <<>>]

ComposeIdle ==
    /\ text_parts = <<>>
    /\ full_text = <<>>

WrapIdle ==
    /\ wrap_text = <<>>
    /\ wrap_font = "Helvetica"
    /\ fontsize = 0
    /\ wrap_width = 0
    /\ wrapped = <<>>

PdfIdle ==
    /\ fontname = "Helvetica"
    /\ y = 0
    /\ page = 0
    /\ lines = <<>>
    /\ size = 0
    /\ drawn = <<>>
    /\ tmpdir = "none"
    /\ tmp_files = {}
    /\ saved = FALSE

(***************************************************************************)
(* fetch_html                                                              *)
(***************************************************************************)
\* lines 66-76: the need-render decision
NeedRenderNoLengthTest(t, u) ==
    \/ t = None
    \/ Contains(Lower(PyOr(t, <<>>)), "<noscript")
    \/ Contains(Lower(PyOr(t, <<>>)), "javascript required")
    \/ (~UrlparseRaises(u) /\ HostIsJsHeavy(u))

NeedRender(t, u) ==
    \/ (t = None \/ PyLen(Strip(t)) < 800)
    \/ (t /= None /\ PyLen(Strip(t)) >= 800
         /\ (\/ Contains(Lower(PyOr(t, <<>>)), "<noscript")
             \/ Contains(Lower(PyOr(t, <<>>)), "javascript required")))
    \/ (~UrlparseRaises(u) /\ HostIsJsHeavy(u))

\* line 92: rendered and len(rendered.strip()) > 200
RenderedUsableAnyLength(r) == Truthy(r)

RenderedUsable(r) == Truthy(r) /\ PyLen(Strip(r)) > 200

\* leaving "with sync_playwright() as pw:" (line 81) stops the driver, and the
\* driver takes the browsers it launched down with it
SyncPlaywrightExitLeavesBrowser(b) == b

SyncPlaywrightExit(b) == IF b = "running" THEN "closed" ELSE b

\* "except Exception: pass" of lines 94-95: where control goes, and whether the
\* exception leaves fetch_html
ExceptPass(next) == [pc |-> next, raised |-> FALSE]

FetchInit ==
    /\ pc = "static_get"
    /\ url \in Urls
    /\ try_playwright_if_needed \in BOOLEAN
    /\ text = None
    /\ final_url = url
    /\ need_render = FALSE
    /\ static_outcome = "pending"
    /\ driver = "none"
    /\ browser = "none"
    /\ pw_fail = "none"
    /\ rendered = None
    /\ final = None
    /\ ret = <<None, None>>
    /\ ret_line = 0
    /\ raised = FALSE
    /\ WrapIdle
    /\ ExtractIdle
    /\ nodes = <<>>
    /\ meta = NoMeta
    /\ node_i = 0
    /\ ComposeIdle
    /\ PdfIdle

\* lines 58-63
StaticGet ==
    /\ pc = "static_get"
    /\ \E o \in {"ok", "network_error", "http_error"} :
         /\ static_outcome' = o
         /\ IF o = "ok"
              THEN \E m \in StaticMarkups, r \in ResolvedUrls \cup {url} :
                     /\ text' = m
                     /\ final_url' = r
              ELSE /\ text' = None
                   /\ UNCHANGED final_url
    /\ pc' = "decide"
    /\ UNCHANGED <<url, try_playwright_if_needed, need_render, driver, browser,
                   pw_fail, rendered, final, ret, ret_line, raised,
                   notFetchVars>>

\* lines 65-78
Decide ==
    /\ pc = "decide"
    /\ need_render' = NeedRender(text, url)
    /\ pc' = IF need_render' /\ try_playwright_if_needed THEN "pw_import" ELSE "return_static"
    /\ UNCHANGED <<url, try_playwright_if_needed, text, final_url, static_outcome,
                   driver, browser, pw_fail, rendered, final, ret, ret_line, raised,
                   notFetchVars>>

\* an exception raised at `step` inside the try of lines 79-95
PwRaise(step) ==
    LET h == ExceptPass("return_static") IN
    /\ pw_fail' = step
    /\ driver' = IF driver = "running" THEN "stopped" ELSE driver
    /\ browser' = IF driver = "running" THEN SyncPlaywrightExit(browser) ELSE browser
    /\ pc' = h.pc
    /\ raised' = h.raised

\* line 80: the import; the fallback is unavailable when it fails
PwImport ==
    /\ pc = "pw_import"
    /\ \/ /\ pc' = "pw_enter"
          /\ UNCHANGED <<pw_fail, driver, browser, raised>>
       \/ PwRaise("import")
    /\ UNCHANGED <<url, try_playwright_if_needed, text, final_url, need_render,
                   static_outcome, rendered, final, ret, ret_line,
                   notFetchVars>>

\* line 81: entering the context starts the driver
PwEnter ==
    /\ pc = "pw_enter"
    /\ \/ /\ driver' = "running"
          /\ pc' = "pw_launch"
          /\ UNCHANGED <<pw_fail, browser, raised>>
       \/ PwRaise("enter")
    /\ UNCHANGED <<url, try_playwright_if_needed, text, final_url, need_render,
                   static_outcome, rendered, final, ret, ret_line,
                   notFetchVars>>

\* line 82
PwLaunch ==
    /\ pc = "pw_launch"
    /\ \/ /\ browser' = "running"
          /\ pc' = "pw_new_page"
          /\ UNCHANGED <<pw_fail, driver, raised>>
       \/ PwRaise("launch")
    /\ UNCHANGED <<url, try_playwright_if_needed, text, final_url, need_render,
                   static_outcome, rendered, final, ret, ret_line,
                   notFetchVars>>

\* lines 83-84
PwNewPage ==
    /\ pc = "pw_new_page"
    /\ \/ /\ pc' = "pw_goto"
          /\ UNCHANGED <<pw_fail, driver, browser, raised>>
       \/ PwRaise("new_page")
    /\ UNCHANGED <<url, try_playwright_if_needed, text, final_url, need_render,
                   static_outcome, rendered, final, ret, ret_line,
                   notFetchVars>>

\* line 85: navigation succeeds, times out or throws
PwGoto ==
    /\ pc = "pw_goto"
    /\ \/ /\ pc' = "pw_wait"
          /\ UNCHANGED <<pw_fail, driver, browser, raised>>
       \/ PwRaise("goto")
    /\ UNCHANGED <<url, try_playwright_if_needed, text, final_url, need_render,
                   static_outcome, rendered, final, ret, ret_line,
                   notFetchVars>>

\* lines 86-89: the idle wait; its timeout is absorbed by the inner except
PwWait ==
    /\ pc = "pw_wait"
    /\ \E timed_out \in BOOLEAN :
         pw_fail' = IF timed_out THEN "idle_wait" ELSE pw_fail
    /\ pc' = "pw_content"
    /\ UNCHANGED <<url, try_playwright_if_needed, text, final_url, need_render,
                   static_outcome, driver, browser, rendered, final, ret, ret_line, raised,
                   notFetchVars>>

\* line 90
PwContent ==
    /\ pc = "pw_content"
    /\ \/ /\ \E m \in RenderedMarkups, r \in ResolvedUrls \cup {url} :
               /\ rendered' = m
               /\ final' = r
          /\ pc' = "pw_close"
          /\ UNCHANGED <<pw_fail, driver, browser, raised>>
       \/ /\ PwRaise("content")
          /\ UNCHANGED <<rendered, final>>
    /\ UNCHANGED <<url, try_playwright_if_needed, text, final_url, need_render,
                   static_outcome, ret, ret_line, notFetchVars>>

\* line 91
PwClose ==
    /\ pc = "pw_close"
    /\ \/ /\ browser' = "closed"
          /\ pc' = "pw_check"
          /\ UNCHANGED <<pw_fail, driver, raised>>
       \/ PwRaise("close")
    /\ UNCHANGED <<url, try_playwright_if_needed, text, final_url, need_render,
                   static_outcome, rendered, final, ret, ret_line,
                   notFetchVars>>

\* lines 92-93, and the normal exit of the with block
PwCheck ==
    /\ pc = "pw_check"
    /\ driver' = "stopped"
    /\ browser' = SyncPlaywrightExit(browser)
    /\ IF RenderedUsable(rendered)
         THEN /\ ret' = <<rendered, final>>
              /\ ret_line' = 93
              /\ pc' = "fetch_done"
         ELSE /\ pc' = "return_static"
              /\ UNCHANGED <<ret, ret_line>>
    /\ UNCHANGED <<url, try_playwright_if_needed, text, final_url, need_render,
                   static_outcome, pw_fail, rendered, final, raised,
                   notFetchVars>>

\* line 97
ReturnStatic ==
    /\ pc = "return_static"
    /\ ret' = <<PyOr(text, <<>>), PyOr(final_url, url)>>
    /\ ret_line' = 97
    /\ pc' = "fetch_done"
    /\ UNCHANGED <<url, try_playwright_if_needed, text, final_url, need_render,
                   static_outcome, driver, browser, pw_fail, rendered, final, raised,
                   notFetchVars>>

FetchNext ==
    \/ StaticGet
    \/ Decide
    \/ PwImport
    \/ PwEnter
    \/ PwLaunch
    \/ PwNewPage
    \/ PwGoto
    \/ PwWait
    \/ PwContent
    \/ PwClose
    \/ PwCheck
    \/ ReturnStatic

FetchSpec == FetchInit /\ [][FetchNext]_vars

(***************************************************************************)
(* extract_more_elements, lines 186-208: the node stream builder.          *)
(*                                                                         *)
(* dom[i] is the i-th descendant of main_content in document order; its    *)
(* parent is an earlier descendant, or 0 for main_content itself.  A text  *)
(* node has tag "#text" and the string s; an img has its attributes.       *)
(* Strings are runs as above, a run of non-whitespace being named by its   *)
(* characters.                                                             *)
(***************************************************************************)
MaxDescendants == 4

Element(tag, parent) ==
    [tag |-> tag, parent |-> parent, s |-> <<>>,
     src |-> "", data_src |-> "", data_original |-> "", alt |-> <<>>]

TextNode(s, parent) ==
    [tag |-> "#text", parent |-> parent, s |-> s,
     src |-> "", data_src |-> "", data_original |-> "", alt |-> <<>>]

Img(src, data_src, data_original, alt, parent) ==
    [tag |-> "img", parent |-> parent, s |-> <<>>,
     src |-> src, data_src |-> data_src, data_original |-> data_original,
     alt |-> alt]

ContainerTags == {"h1", "h3", "p", "blockquote", "li", "ul", "figcaption"}

Texts ==
    { << Ws(2) >>,
      << Ws(4), Word("abcde"), Ws(4) >>,
      << Word("fghijk") >>,
      << Ws(3), Word("lmnopqrstuv") >> }

\* the descendants that may be appended under parent p
Labelled(p) ==
    { Element(t, p) : t \in ContainerTags }
      \cup { TextNode(s, p) : s \in Texts }
      \cup { Img("/img/a.jpg", "", "", << Word("alt") >>, p),
             Img("", "", "https://cdn.example/b.png", <<>>, p),
             Img("", "", "", << Word("alt") >>, p) }

RECURSIVE AncestorOrSelf(_, _, _)
AncestorOrSelf(d, a, j) ==
    IF j = a THEN TRUE
    ELSE IF j = 0 THEN FALSE
    ELSE AncestorOrSelf(d, a, d[j].parent)

\* where the next descendant in document order may hang
OpenParents(d) ==
    {0} \cup { a \in 1..Len(d) :
                 /\ d[a].tag \in ContainerTags
                 /\ AncestorOrSelf(d, a, Len(d)) }

\* the descendants that may follow d in document order
Extensions(d) == UNION { Labelled(p) : p \in OpenParents(d) }

RECURSIVE Doms(_)
Doms(n) ==
    IF n = 0 THEN { <<>> }
    ELSE UNION { { Append(d, x) : x \in Extensions(d) } : d \in Doms(n - 1) }

BaseUrls == { [origin |-> "https://x.com", path |-> "/news/1"] }

\* urljoin(base_url, src) for an absolute or a root-relative src
Urljoin(base, src) ==
    IF src \in {"https://cdn.example/b.png"} THEN src ELSE base.origin \o src

\* the strings of the descendants of a (a = 0: of main_content), from j on
RECURSIVE StrippedStringsFrom(_, _, _)
StrippedStringsFrom(d, a, j) ==
    IF j > Len(d) THEN <<>>
    ELSE IF d[j].tag = "#text" /\ j /= a /\ AncestorOrSelf(d, a, j)
              /\ Strip(d[j].s) /= <<>>
         THEN Strip(d[j].s) \o StrippedStringsFrom(d, a, j + 1)
         ELSE StrippedStringsFrom(d, a, j + 1)

RECURSIVE RawStringsFrom(_, _, _)
RawStringsFrom(d, a, j) ==
    IF j > Len(d) THEN <<>>
    ELSE IF d[j].tag = "#text" /\ j /= a /\ AncestorOrSelf(d, a, j)
         THEN d[j].s \o RawStringsFrom(d, a, j + 1)
         ELSE RawStringsFrom(d, a, j + 1)

\* el.get_text(strip=True): every string below el stripped, the empty ones
\* dropped, the rest joined by ""
GetTextUnstripped(d, a) == RawStringsFrom(d, a, 1)

GetTextStrip(d, a) == StrippedStringsFrom(d, a, 1)

\* el.parent.find("figcaption"): the first figcaption below the parent, or 0
FindFigcaption(d, par) ==
    LET caps == { j \in 1..Len(d) :
                    /\ d[j].tag = "figcaption"
                    /\ j /= par
                    /\ AncestorOrSelf(d, par, j) }
    IN IF caps = {} THEN 0 ELSE CHOOSE j \in caps : \A k \in caps : j <= k

\* line 197: el.get("src") or el.get("data-src") or el.get("data-original")
ImgSrc(e) ==
    IF e.src /= "" THEN e.src
    ELSE IF e.data_src /= "" THEN e.data_src
    ELSE e.data_original

\* lines 200-206
ImgCaption(d, i) ==
    LET cap == FindFigcaption(d, d[i].parent)
        fromCap == IF cap = 0 THEN <<>> ELSE GetTextStrip(d, cap)
    IN IF fromCap /= <<>> THEN fromCap ELSE d[i].alt

\* lines 188-207: the nodes one descendant appends (none or one)
NodesOf(d, base, i) ==
    LET e == d[i] IN
    IF e.tag \in {"h1", "h2", "h3", "h4"}
      THEN IF GetTextStrip(d, i) /= <<>>
             THEN << [typ |-> "heading", text |-> GetTextStrip(d, i),
                      level |-> e.tag] >>
             ELSE <<>>
    ELSE IF e.tag \in {"p", "blockquote", "li"}
      THEN IF GetTextStrip(d, i) /= <<>> /\ PyLen(GetTextStrip(d, i)) > 10
             THEN << [typ |-> "paragraph", text |-> GetTextStrip(d, i),
                      level |-> "None"] >>
             ELSE <<>>
    ELSE IF e.tag = "img"
      THEN IF ImgSrc(e) /= ""
             THEN << [typ |-> "image", url |-> Urljoin(base, ImgSrc(e)),
                      caption |-> ImgCaption(d, i)] >>
             ELSE <<>>
    ELSE <<>>

ExtractInit ==
    /\ pc = "build_nodes"
    /\ \E d \in UNION { Doms(n) : n \in 0..(MaxDescendants - 2) } :
         \/ dom = d
         \/ /\ Len(d) = MaxDescendants - 2
            /\ \E x \in Extensions(d) :
                 \/ dom = Append(d, x)
                 \/ \E x2 \in Extensions(Append(d, x)) :
                      dom = Append(Append(d, x), x2)
    /\ base_url \in BaseUrls
    /\ el = 1
    /\ nodes = <<>>
    /\ made_by = <<>>
    /\ raised = FALSE
    /\ FetchIdle
    /\ WrapIdle
    /\ meta = NoMeta
    /\ node_i = 0
    /\ ComposeIdle
    /\ PdfIdle

\* one iteration of "for el in main_content.descendants"
Visit ==
    /\ pc = "build_nodes"
    /\ el <= Len(dom)
    /\ nodes' = nodes \o NodesOf(dom, base_url, el)
    /\ made_by' = made_by \o [k \in 1..Len(NodesOf(dom, base_url, el)) |-> el]
    /\ el' = el + 1
    /\ UNCHANGED <<pc, raised, dom, base_url, fetchVars, wrapVars, meta, node_i, composeVars,
                   pdfVars>>

\* lines 208-209
ExtractReturn ==
    /\ pc = "build_nodes"
    /\ el > Len(dom)
    /\ pc' = "extract_done"
    /\ UNCHANGED <<raised, dom, base_url, el, nodes, made_by, fetchVars, wrapVars, meta,
                   node_i, composeVars, pdfVars>>

ExtractNext == Visit \/ ExtractReturn

ExtractSpec == ExtractInit /\ [][ExtractNext]_vars


(***************************************************************************)
(* ScraperGUI._worker, lines 507-530: the plain-text composition           *)
(***************************************************************************)
MaxNodes == 3

UpperKind(k) ==
    CASE k = "Title" -> "TITLE"
      [] k = "Part" -> "PART"
      [] k = "two" -> "TWO"
      [] OTHER -> k

\* str.upper()
Upper(s) == [i \in 1..Len(s) |-> Run(UpperKind(s[i].k), s[i].n)]

HeadingTitle == [typ |-> "heading", text |-> << Word("Title") >>, level |-> "h1"]

HeadingPartTwo ==
    [typ |-> "heading", text |-> << Word("Part"), Ws(1), Word("two") >>, level |-> "h2"]

LongParagraph ==
    [typ |-> "paragraph",
     text |-> << Word("This is a long enough paragraph to pass the filter.") >>,
     level |-> "None"]

ImageWithCaption ==
    [typ |-> "image", url |-> "https://x.com/img/a.jpg",
     caption |-> << Word("A"), Ws(1), Word("cat") >>]

ImageNoCaption ==
    [typ |-> "image", url |-> "https://cdn.example/b.png", caption |-> <<>>]

NodePool ==
    {HeadingTitle, HeadingPartTwo, LongParagraph, ImageWithCaption, ImageNoCaption}

NodeSeqs(n) == UNION { [1..k -> NodePool] : k \in 0..n }

Metas ==
    [title : { <<>>, << Word("Example"), Ws(1), Word("Page") >> },
     author : { <<>>, << Word("Ann"), Ws(1), Word("Lee") >> },
     date : { <<>>, << Word("2024-01-02") >> },
     tags : { <<>>, << Word("a,b") >> }]

\* "\n".join(parts)
RECURSIVE Join(_)
Join(parts) ==
    IF parts = <<>> THEN <<>>
    ELSE IF Len(parts) = 1 THEN parts[1]
    ELSE parts[1] \o << Nl >> \o Join(Tail(parts))

\* lines 509-517
HeaderParts(m) ==
    (IF m.title /= <<>> THEN << m.title, <<>> >> ELSE <<>>)
      \o (IF m.author /= <<>> THEN << << Word("By"), Ws(1) >> \o m.author >> ELSE <<>>)
      \o (IF m.date /= <<>> THEN << << Word("Published:"), Ws(1) >> \o m.date >> ELSE <<>>)
      \o (IF m.tags /= <<>> THEN << << Word("Tags:"), Ws(1) >> \o m.tags >> ELSE <<>>)
      \o << <<>> >>

\* lines 520-528
NodeParts(node) ==
    (IF node.typ = "heading" THEN << Upper(node.text) >>
     ELSE IF node.typ = "paragraph" THEN << node.text >>
     ELSE IF node.typ = "image"
       THEN << << Word("[Image:"), Ws(1), Word(node.url \o "]") >> >>
              \o (IF node.caption /= <<>>
                    THEN << << Word("Caption:"), Ws(1) >> \o node.caption >>
                    ELSE <<>>)
     ELSE <<>>)
      \o << <<>> >>

\* line 530: "\n".join(text_parts).strip()
FullTextUnstripped(parts) == Join(parts)

FullText(parts) == Strip(Join(parts))

ComposeInit ==
    /\ pc = "compose_header"
    /\ meta \in Metas
    /\ nodes \in NodeSeqs(MaxNodes)
    /\ node_i = 1
    /\ text_parts = <<>>
    /\ full_text = <<>>
    /\ raised = FALSE
    /\ FetchIdle
    /\ WrapIdle
    /\ ExtractIdle
    /\ PdfIdle

ComposeHeader ==
    /\ pc = "compose_header"
    /\ text_parts' = HeaderParts(meta)
    /\ pc' = "compose_nodes"
    /\ UNCHANGED <<raised, fetchVars, wrapVars, extractVars, nodes, meta, node_i, full_text,
                   pdfVars>>

\* one iteration of "for node in meta.get('nodes', [])"
ComposeNode ==
    /\ pc = "compose_nodes"
    /\ node_i <= Len(nodes)
    /\ text_parts' = text_parts \o NodeParts(nodes[node_i])
    /\ node_i' = node_i + 1
    /\ UNCHANGED <<pc, raised, fetchVars, wrapVars, extractVars, nodes, meta, full_text, pdfVars>>

ComposeJoin ==
    /\ pc = "compose_nodes"
    /\ node_i > Len(nodes)
    /\ full_text' = FullText(text_parts)
    /\ pc' = "compose_done"
    /\ UNCHANGED <<raised, fetchVars, wrapVars, extractVars, nodes, meta, node_i, text_parts,
                   pdfVars>>

ComposeNext == ComposeHeader \/ ComposeNode \/ ComposeJoin

ComposeSpec == ComposeInit /\ [][ComposeNext]_vars

(***************************************************************************)
(* create_pdf, lines 265-354.  Lengths are in 1/1000 pt.  A text is a      *)
(* string of runs; a run of n non-space characters is n glyphs wide.       *)
(***************************************************************************)
MaxPdfNodes == 3

Pt(n) == n * 1000

\* A4 of reportlab.lib.pagesizes: 595.2756 pt by 841.8898 pt
PAGE_W == 595276

PAGE_H == 841890

margin == 28000

usable_w == PAGE_W - 2 * margin

Fonts == {"DejaVuSans", "Helvetica"}

\* the advance of a glyph and of the space, in 1/1000 em, per font
GlyphEm(font) == IF font = "Helvetica" THEN 556 ELSE 613

SpaceEm(font) == IF font = "Helvetica" THEN 278 ELSE 318

\* str.split(): the maximal runs of non-space characters
RECURSIVE SplitFrom(_, _)
SplitFrom(s, cur) ==
    IF s = <<>> THEN (IF cur.n > 0 THEN << cur >> ELSE <<>>)
    ELSE IF IsSpace(Head(s))
      THEN (IF cur.n > 0 THEN << cur >> ELSE <<>>) \o SplitFrom(Tail(s), Run("", 0))
    ELSE SplitFrom(Tail(s), Run(cur.k \o Head(s).k, cur.n + Head(s).n))

Split(s) == SplitFrom(s, Run("", 0))

\* the advances of the characters of s, in 1/1000 em
RECURSIVE Ems(_, _)
Ems(s, font) ==
    IF s = <<>> THEN 0
    ELSE Head(s).n * (IF IsSpace(Head(s)) THEN SpaceEm(font) ELSE GlyphEm(font))
           + Ems(Tail(s), font)

\* stringWidth(s, fontname, fontsize)
StringWidth(s, font, sz) == sz * Ems(s, font)

\* the loop of lines 253-262 with the overflowing word dropped at line 260
RECURSIVE WrapLosesOverflow(_, _, _, _, _)
WrapLosesOverflow(words, cur, font, sz, max_width) ==
    IF words = <<>> THEN (IF Truthy(cur) THEN << cur >> ELSE <<>>)
    ELSE LET w == << Head(words) >>
             candidate == Strip(cur \o << Ws(1) >> \o w)
         IN IF StringWidth(candidate, font, sz) <= max_width
              THEN WrapLosesOverflow(Tail(words), candidate, font, sz, max_width)
              ELSE (IF Truthy(cur) THEN << cur >> ELSE <<>>)
                     \o WrapLosesOverflow(Tail(words), <<>>, font, sz, max_width)

\* lines 252-263: the loop over the words from cur on, and the last line
RECURSIVE Wrap(_, _, _, _, _)
Wrap(words, cur, font, sz, max_width) ==
    IF words = <<>> THEN (IF Truthy(cur) THEN << cur >> ELSE <<>>)
    ELSE LET w == << Head(words) >>
             candidate == Strip(cur \o << Ws(1) >> \o w)
         IN IF StringWidth(candidate, font, sz) <= max_width
              THEN Wrap(Tail(words), candidate, font, sz, max_width)
              ELSE (IF Truthy(cur) THEN << cur >> ELSE <<>>)
                     \o Wrap(Tail(words), w, font, sz, max_width)

split_text_to_lines(txt, font, sz, max_width) ==
    Wrap(Split(txt), <<>>, font, sz, max_width)

\* what the network and the decoder make of an image url: whether the download
\* fails, Image.open raises, or the decode raises at drawImage; and img.size
ImageAt(u) ==
    CASE u = "small.png" -> [fate |-> "ok", iw |-> 300, ih |-> 200]
      [] u = "big.jpg" -> [fate |-> "ok", iw |-> 500, ih |-> 700]
      [] u = "tall.png" -> [fate |-> "ok", iw |-> 500, ih |-> 2000]
      [] u = "wide.jpg" -> [fate |-> "ok", iw |-> 2000, ih |-> 1000]
      [] u = "missing.jpg" -> [fate |-> "download_fails", iw |-> 0, ih |-> 0]
      [] u = "page.html" -> [fate |-> "open_fails", iw |-> 0, ih |-> 0]
      [] OTHER -> [fate |-> "draw_fails", iw |-> 400, ih |-> 700]

LongWord == Run("x", 50)

PdfTexts ==
    [short |-> << Word("Lorem"), Ws(1), Word("ipsum") >>,
     two_lines |-> << LongWord, Ws(1), LongWord, Ws(2), Word("end") >>,
     six_lines |-> << LongWord, Ws(1), LongWord, Ws(1), LongWord, Ws(1),
                      LongWord, Ws(1), LongWord, Ws(1), LongWord >>]

PdfNodePool ==
    { [typ |-> "heading", text |-> PdfTexts.short, level |-> "h1"],
      [typ |-> "heading", text |-> PdfTexts.two_lines, level |-> "h3"],
      [typ |-> "paragraph", text |-> PdfTexts.short, level |-> "None"],
      [typ |-> "paragraph", text |-> PdfTexts.six_lines, level |-> "None"],
      [typ |-> "image", url |-> "small.png", caption |-> PdfTexts.short],
      [typ |-> "image", url |-> "big.jpg", caption |-> PdfTexts.two_lines],
      [typ |-> "image", url |-> "tall.png", caption |-> PdfTexts.short],
      [typ |-> "image", url |-> "wide.jpg", caption |-> <<>>],
      [typ |-> "image", url |-> "missing.jpg", caption |-> PdfTexts.short],
      [typ |-> "image", url |-> "page.html", caption |-> <<>>],
      [typ |-> "image", url |-> "truncated.jpg", caption |-> PdfTexts.short] }

PdfMetas ==
    { NoMeta,
      [NoMeta EXCEPT !.title = PdfTexts.short,
                     !.author = << Word("Ann"), Ws(1), Word("Lee") >>],
      [NoMeta EXCEPT !.title = PdfTexts.two_lines, !.tags = << Word("a,b") >>] }

\* the threshold tests of lines 278, 295, 310, 320 and 345
NeedsPageBreakNever(yy, room) == FALSE

NeedsPageBreak(yy, room) == yy < margin + room

\* line 336
ImageNeedsPageBreak(yy, display_h) == yy - display_h < margin

\* lines 334-335, in exact arithmetic rounded down to 1/1000 pt
DisplayW(iw) == IF usable_w <= Pt(iw) THEN usable_w ELSE Pt(iw)

DisplayH(iw, ih) == (DisplayW(iw) * ih) \div iw

\* "except Exception" of lines 245-246 and 350-351: the image is passed over
ImageExceptPropagates == [pc |-> "pdf_raised", raised |-> TRUE]

ImageExceptPass == [pc |-> "pdf_loop", raised |-> FALSE]

\* the cursor advance after one drawn line: lines 281, 296, 313, 323 and 347
LineAdvanceFontPlusTwo(kind, sz) == Pt(sz + 2)

LineAdvance(kind, sz) ==
    CASE kind = "title" -> Pt(22)
      [] kind = "meta" -> Pt(16)
      [] kind = "caption" -> Pt(11)
      [] OTHER -> Pt(sz + 2)

Drawing(kind, n, line, yy, bottom, pg) ==
    [kind |-> kind, node |-> n, text |-> line, y |-> yy, bottom |-> bottom,
     page |-> pg]

PdfInit ==
    /\ pc = "pdf_start"
    /\ meta \in PdfMetas
    /\ nodes \in UNION { [1..k -> PdfNodePool] : k \in 0..MaxPdfNodes }
    /\ node_i = 0
    /\ PdfIdle
    /\ raised = FALSE
    /\ FetchIdle
    /\ WrapIdle
    /\ ExtractIdle
    /\ ComposeIdle

\* lines 266-276
CreateCanvas ==
    /\ pc = "pdf_start"
    /\ fontname' \in Fonts
    /\ y' = PAGE_H - margin
    /\ page' = 1
    /\ IF meta.title /= <<>>
         THEN /\ size' = 18
              /\ lines' = split_text_to_lines(meta.title, fontname', 18, usable_w)
              /\ pc' = "pdf_title"
         ELSE /\ pc' = "pdf_meta"
              /\ UNCHANGED <<size, lines>>
    /\ UNCHANGED <<raised, fetchVars, wrapVars, extractVars, composeVars, nodes, meta, node_i,
                   drawn, tmpdir, tmp_files, saved>>

\* one drawString of a wrapped line: the page-break test, the draw, the advance
DrawLineAt(kind, room, advance) ==
    LET broke == NeedsPageBreak(y, room)
        yy == IF broke THEN PAGE_H - margin ELSE y
        pg == IF broke THEN page + 1 ELSE page
    IN /\ drawn' = Append(drawn, Drawing(kind, node_i, Head(lines), yy, yy, pg))
       /\ page' = pg
       /\ y' = yy - advance
       /\ lines' = Tail(lines)

\* lines 277-281
DrawTitleLine ==
    /\ pc = "pdf_title"
    /\ lines /= <<>>
    /\ DrawLineAt("title", Pt(40), LineAdvance("title", size))
    /\ UNCHANGED <<pc, raised, fetchVars, wrapVars, extractVars, composeVars, nodes, meta,
                   node_i, fontname, size, tmpdir, tmp_files, saved>>

\* line 282
EndTitle ==
    /\ pc = "pdf_title"
    /\ lines = <<>>
    /\ y' = y - Pt(6)
    /\ pc' = "pdf_meta"
    /\ UNCHANGED <<raised, fetchVars, wrapVars, extractVars, composeVars, nodes, meta, node_i,
                   fontname, page, lines, size, drawn, tmpdir, tmp_files, saved>>

\* lines 285-296, up to the advance after the metadata line
DrawMeta ==
    /\ pc = "pdf_meta"
    /\ IF meta.author /= <<>> \/ meta.date /= <<>> \/ meta.tags /= <<>>
         THEN LET broke == NeedsPageBreak(y, Pt(20))
                  yy == IF broke THEN PAGE_H - margin ELSE y
                  pg == IF broke THEN page + 1 ELSE page
              IN /\ drawn' = Append(drawn, Drawing("meta", 0, <<>>, yy, yy, pg))
                 /\ page' = pg
                 /\ y' = yy - LineAdvance("meta", 9)
                 /\ size' = 9
                 /\ pc' = "pdf_meta_end"
         ELSE /\ pc' = "pdf_session"
              /\ UNCHANGED <<drawn, page, y, size>>
    /\ UNCHANGED <<raised, fetchVars, wrapVars, extractVars, composeVars, nodes, meta, node_i,
                   fontname, lines, tmpdir, tmp_files, saved>>

\* line 296, the second statement
EndMeta ==
    /\ pc = "pdf_meta_end"
    /\ y' = y - Pt(6)
    /\ pc' = "pdf_session"
    /\ UNCHANGED <<raised, fetchVars, wrapVars, extractVars, composeVars, nodes, meta, node_i,
                   fontname, page, lines, size, drawn, tmpdir, tmp_files, saved>>

\* lines 298-301: the session and the temporary directory
OpenSession ==
    /\ pc = "pdf_session"
    /\ tmpdir' = "exists"
    /\ node_i' = 1
    /\ pc' = "pdf_loop"
    /\ UNCHANGED <<raised, fetchVars, wrapVars, extractVars, composeVars, nodes, meta,
                   fontname, y, page, lines, size, drawn, tmp_files, saved>>

\* lines 305-308 and 315-318
BeginText ==
    /\ pc = "pdf_loop"
    /\ node_i <= Len(nodes)
    /\ nodes[node_i].typ \in {"heading", "paragraph"}
    /\ size' = IF nodes[node_i].typ = "paragraph" THEN 11
               ELSE IF nodes[node_i].level = "h1" THEN 14 ELSE 12
    /\ lines' = split_text_to_lines(nodes[node_i].text, fontname, size', usable_w)
    /\ pc' = "pdf_text"
    /\ UNCHANGED <<raised, fetchVars, wrapVars, extractVars, composeVars, nodes, meta, node_i,
                   fontname, y, page, drawn, tmpdir, tmp_files, saved>>

\* lines 309-313 and 319-323
DrawLine ==
    /\ pc = "pdf_text"
    /\ lines /= <<>>
    /\ DrawLineAt(nodes[node_i].typ, Pt(size * 2), LineAdvance(nodes[node_i].typ, size))
    /\ UNCHANGED <<pc, raised, fetchVars, wrapVars, extractVars, composeVars, nodes, meta,
                   node_i, fontname, size, tmpdir, tmp_files, saved>>

\* lines 314 and 324
EndText ==
    /\ pc = "pdf_text"
    /\ lines = <<>>
    /\ y' = y - (IF nodes[node_i].typ = "heading" THEN Pt(6) ELSE Pt(8))
    /\ node_i' = node_i + 1
    /\ pc' = "pdf_loop"
    /\ UNCHANGED <<raised, fetchVars, wrapVars, extractVars, composeVars, nodes, meta,
                   fontname, page, lines, size, drawn, tmpdir, tmp_files, saved>>

\* lines 326-328 with download_image_local, lines 230-246
DownloadImage ==
    /\ pc = "pdf_loop"
    /\ node_i <= Len(nodes)
    /\ nodes[node_i].typ = "image"
    /\ IF ImageAt(nodes[node_i].url).fate = "download_fails"
         THEN /\ pc' = ImageExceptPass.pc
              /\ raised' = ImageExceptPass.raised
              /\ node_i' = node_i + 1
              /\ UNCHANGED tmp_files
         ELSE /\ tmp_files' = tmp_files \cup {nodes[node_i].url}
              /\ pc' = "pdf_image"
              /\ UNCHANGED <<raised, node_i>>
    /\ UNCHANGED <<fetchVars, wrapVars, extractVars, composeVars, nodes, meta, fontname, y,
                   page, lines, size, drawn, tmpdir, saved>>

\* lines 329-343 and 350-351
PlaceImage ==
    /\ pc = "pdf_image"
    /\ LET img == ImageAt(nodes[node_i].url) IN
       IF img.fate = "open_fails"
         THEN /\ pc' = ImageExceptPass.pc
              /\ raised' = ImageExceptPass.raised
              /\ node_i' = node_i + 1
              /\ UNCHANGED <<y, page, drawn, lines, size>>
         ELSE LET display_h == DisplayH(img.iw, img.ih)
                  broke == ImageNeedsPageBreak(y, display_h)
                  yy == IF broke THEN PAGE_H - margin ELSE y
                  pg == IF broke THEN page + 1 ELSE page
              IN /\ page' = pg
                 /\ IF img.fate = "draw_fails"
                      THEN /\ pc' = ImageExceptPass.pc
                           /\ raised' = ImageExceptPass.raised
                           /\ node_i' = node_i + 1
                           /\ y' = yy
                           /\ UNCHANGED <<drawn, lines, size>>
                      ELSE /\ drawn' = Append(drawn,
                                  Drawing("image", node_i, <<>>, yy, yy - display_h, pg))
                           /\ y' = yy - (display_h + Pt(6))
                           /\ UNCHANGED raised
                           /\ IF nodes[node_i].caption /= <<>>
                                THEN /\ size' = 9
                                     /\ lines' = split_text_to_lines(
                                            nodes[node_i].caption, fontname, 9, usable_w)
                                     /\ pc' = "pdf_caption"
                                     /\ UNCHANGED node_i
                                ELSE /\ node_i' = node_i + 1
                                     /\ pc' = "pdf_loop"
                                     /\ UNCHANGED <<lines, size>>
    /\ UNCHANGED <<fetchVars, wrapVars, extractVars, composeVars, nodes, meta, fontname,
                   tmpdir, tmp_files, saved>>

\* lines 344-348
DrawCaptionLine ==
    /\ pc = "pdf_caption"
    /\ lines /= <<>>
    /\ DrawLineAt("caption", Pt(12), LineAdvance("caption", size))
    /\ UNCHANGED <<pc, raised, fetchVars, wrapVars, extractVars, composeVars, nodes, meta,
                   node_i, fontname, size, tmpdir, tmp_files, saved>>

\* line 349
EndCaption ==
    /\ pc = "pdf_caption"
    /\ lines = <<>>
    /\ y' = y - Pt(6)
    /\ node_i' = node_i + 1
    /\ pc' = "pdf_loop"
    /\ UNCHANGED <<raised, fetchVars, wrapVars, extractVars, composeVars, nodes, meta,
                   fontname, page, lines, size, drawn, tmpdir, tmp_files, saved>>

\* lines 353-354: c.save() writes the file, or raises when it cannot
Save ==
    /\ pc = "pdf_loop"
    /\ node_i > Len(nodes)
    /\ \/ /\ saved' = TRUE
          /\ pc' = "pdf_done"
          /\ UNCHANGED raised
       \/ /\ raised' = TRUE
          /\ pc' = "pdf_save_failed"
          /\ UNCHANGED saved
    /\ UNCHANGED <<fetchVars, wrapVars, extractVars, composeVars, nodes, meta, node_i,
                   fontname, y, page, lines, size, drawn, tmpdir, tmp_files>>

PdfNext ==
    \/ CreateCanvas
    \/ DrawTitleLine
    \/ EndTitle
    \/ DrawMeta
    \/ EndMeta
    \/ OpenSession
    \/ BeginText
    \/ DrawLine
    \/ EndText
    \/ DownloadImage
    \/ PlaceImage
    \/ DrawCaptionLine
    \/ EndCaption
    \/ Save

PdfSpec == PdfInit /\ [][PdfNext]_vars

(***************************************************************************)
(* split_text_to_lines, lines 248-263, called on its own: a text of up to  *)
(* MaxWords words, a font, a font size and a width to wrap to.             *)
(***************************************************************************)
MaxWords == 4

\* words of 3, 40, 50 and 100 characters
WrapWords == { Run("abc", 3), Run("m", 40), Run("x", 50), Run("z", 100) }

\* what separates two words: a space, two spaces, a newline
Separators == { << Ws(1) >>, << Ws(2) >>, << Nl >> }

\* the words ws with sep between them
RECURSIVE Separated(_, _)
Separated(ws, sep) ==
    IF ws = <<>> THEN <<>>
    ELSE IF Len(ws) = 1 THEN << ws[1] >>
    ELSE << ws[1] >> \o sep \o Separated(Tail(ws), sep)

FontSizes == {9, 11, 12, 14, 18}

\* the usable width of create_pdf, a third of it, and no width at all
MaxWidths == { usable_w, usable_w \div 3, 0 }

WrapInit ==
    /\ pc = "wrap_start"
    /\ \E ws \in UNION { [1..k -> WrapWords] : k \in 0..MaxWords } :
         \E sep \in Separators :
           \E padded \in BOOLEAN :
             wrap_text = IF padded THEN << Ws(1) >> \o Separated(ws, sep) \o << Nl >>
                         ELSE Separated(ws, sep)
    /\ wrap_font \in Fonts
    /\ fontsize \in FontSizes
    /\ wrap_width \in MaxWidths
    /\ wrapped = <<>>
    /\ raised = FALSE
    /\ nodes = <<>>
    /\ meta = NoMeta
    /\ node_i = 0
    /\ FetchIdle
    /\ ExtractIdle
    /\ ComposeIdle
    /\ PdfIdle

\* the call, lines 248-263
SplitTextToLines ==
    /\ pc = "wrap_start"
    /\ wrapped' = split_text_to_lines(wrap_text, wrap_font, fontsize, wrap_width)
    /\ pc' = "wrap_done"
    /\ UNCHANGED <<raised, fetchVars, extractVars, nodes, meta, node_i, composeVars,
                   pdfVars, wrap_text, wrap_font, fontsize, wrap_width>>

WrapNext == SplitTextToLines

WrapSpec == WrapInit /\ [][WrapNext]_vars

(***************************************************************************)
(* Claims about fetch_html                                                 *)
(***************************************************************************)
\* the rendering fallback was entered (line 80 was reached)
FallbackTaken ==
    \/ pc \in {"pw_import", "pw_enter", "pw_launch", "pw_new_page", "pw_goto",
               "pw_wait", "pw_content", "pw_close", "pw_check"}
    \/ pw_fail /= "none"
    \/ driver /= "none"

Decided == pc \notin {"static_get", "decide"}

NoMarkers(t) ==
    /\ ~Contains(Lower(t), "<noscript")
    /\ ~Contains(Lower(t), "javascript required")

\* the host is a listed domain or a subdomain of one
HostListed(u) ==
    \E d \in js_heavy_sites :
        \/ LowerHost(u) = d
        \/ /\ Len(u) > Len(d)
           /\ SubSeq(LowerHost(u), Len(u) - Len(d), Len(u)) = <<".">> \o d

C2_NeverRaises ==
    pc = "fetch_done" =>
        /\ ~raised
        /\ ret_line \in {93, 97}
        /\ ret[1] /= None /\ ret[2] /= None
        /\ (ret_line = 93 =>
              /\ FallbackTaken
              /\ rendered /= None /\ PyLen(rendered) > 200
              /\ ret = <<rendered, final>>)
        /\ (ret_line = 97 =>
              IF static_outcome = "ok"
                THEN ret = <<text, final_url>>
                ELSE ret = << <<>>, url >>)
        /\ ((rendered = None \/ PyLen(rendered) <= 200) => ret_line = 97)

C2_Witness ==
    /\ pc = "fetch_done"
    /\ static_outcome = "http_error"
    /\ pw_fail = "goto"
    /\ ret = << <<>>, url >>

\* C10: whenever fetch_html has returned, a browser it launched has been shut
\* down, and so has the driver that launched it.
C10_BrowserReleased ==
    pc = "fetch_done" => (browser /= "running" /\ driver /= "running")

C10_Witness ==
    /\ pc = "fetch_done"
    /\ pw_fail = "goto"
    /\ browser = "closed"
    /\ driver = "stopped"

(***************************************************************************)
(* Claims about the node stream builder                                    *)
(***************************************************************************)
\* C3: the node list never holds a paragraph whose trimmed text has length
\* <= 10, nor a heading or paragraph whose trimmed text is empty.
C3_NoShortParagraph ==
    \A k \in 1..Len(nodes) :
        /\ (nodes[k].typ = "paragraph" => PyLen(Strip(nodes[k].text)) > 10)
        /\ (nodes[k].typ \in {"heading", "paragraph"} => Strip(nodes[k].text) /= <<>>)

\* a list item with a short text was passed over, and a paragraph was emitted
C3_Witness ==
    /\ pc = "extract_done"
    /\ \E i \in 1..Len(dom) :
         /\ dom[i].tag = "li"
         /\ PyLen(GetTextStrip(dom, i)) \in 1..10
         /\ \A k \in 1..Len(made_by) : made_by[k] /= i
    /\ \E k \in 1..Len(nodes) : nodes[k].typ = "paragraph"

InSubtree(d, b, j) == j /= b /\ AncestorOrSelf(d, b, j)

\* blockquote b holds a list and nothing else: a ul with at least one li
ListInBlockquote(d, b) ==
    /\ d[b].tag = "blockquote"
    /\ \E u \in 1..Len(d) : d[u].tag = "ul" /\ d[u].parent = b
    /\ \E i \in 1..Len(d) : d[i].tag = "li" /\ InSubtree(d, b, i)
    /\ \A j \in 1..Len(d) :
         InSubtree(d, b, j) =>
            /\ d[j].tag \in {"ul", "li", "#text"}
            /\ (d[j].tag = "li" => d[d[j].parent].tag = "ul")
            /\ (d[j].tag = "#text" => d[d[j].parent].tag = "li")

\* C4 as stated: the nodes are in the document order of the elements that
\* produced them, and a list inside a blockquote yields exactly one paragraph
\* node per qualifying list item and no node for the blockquote itself.
C4_AsStated ==
    pc = "extract_done" =>
        /\ \A k \in 1..(Len(made_by) - 1) : made_by[k] < made_by[k + 1]
        /\ \A b \in 1..Len(dom) :
             ListInBlockquote(dom, b) =>
                { made_by[k] : k \in { m \in 1..Len(made_by) :
                                         AncestorOrSelf(dom, b, made_by[m]) } }
                  = { i \in 1..Len(dom) :
                        /\ dom[i].tag = "li"
                        /\ InSubtree(dom, b, i)
                        /\ PyLen(Strip(GetTextStrip(dom, i))) > 10 }

(***************************************************************************)
(* Claims about the plain-text composition                                 *)
(***************************************************************************)
\* str.split("\n"): the lines of a text, a trailing newline giving a last
\* empty line
RECURSIVE SplitLines(_, _)
SplitLines(s, cur) ==
    IF s = <<>> THEN << cur >>
    ELSE IF Head(s).k = "nl" THEN << cur >> \o SplitLines(Tail(s), <<>>)
    ELSE SplitLines(Tail(s), Append(cur, Head(s)))

Lines(s) == SplitLines(s, <<>>)

\* a title, the heading "Title", the long paragraph, nothing else
RoundTripScenario ==
    /\ pc = "compose_done"
    /\ meta.title /= <<>>
    /\ meta.author = <<>> /\ meta.date = <<>> /\ meta.tags = <<>>
    /\ nodes = << HeadingTitle, LongParagraph >>

\* the lines a node is written as, and the first of them
FirstLine(node) ==
    IF node.typ = "heading" THEN Upper(node.text)
    ELSE IF node.typ = "paragraph" THEN node.text
    ELSE << Word("[Image:"), Ws(1), Word(node.url \o "]") >>

LineCount(node) == IF node.typ = "image" /\ node.caption /= <<>> THEN 2 ELSE 1

RECURSIVE LinesBefore(_, _)
LinesBefore(ns, i) ==
    IF i <= 1 THEN 0 ELSE LineCount(ns[i - 1]) + 1 + LinesBefore(ns, i - 1)

\* in the composed text node i starts right after exactly one blank line that
\* follows node i-1, counted back from the end of the text
OneBlankBetweenNodes ==
    (pc = "compose_done" /\ Len(nodes) >= 1) =>
        LET L == Lines(full_text)
            total == LinesBefore(nodes, Len(nodes)) + LineCount(nodes[Len(nodes)])
            start(i) == Len(L) - total + 1 + LinesBefore(nodes, i)
        IN /\ Len(L) >= total
           /\ \A i \in 1..Len(nodes) :
                /\ L[start(i)] = FirstLine(nodes[i])
                /\ \A j \in 0..(LineCount(nodes[i]) - 1) : L[start(i) + j] /= <<>>
                /\ (i > 1 => L[start(i) - 1] = <<>> /\ L[start(i) - 2] /= <<>>)

\* C7 as stated: the scenario's text is exactly title line, blank line,
\* upper-cased heading line, blank line, paragraph line, blank line; and one
\* blank line separates consecutive nodes.
C7_AsStated ==
    /\ RoundTripScenario =>
         \/ Lines(full_text) = << meta.title, <<>>, << Word("TITLE") >>, <<>>,
                                  LongParagraph.text, <<>> >>
         \/ full_text = meta.title \o << Nl, Nl >> \o << Word("TITLE") >> \o << Nl, Nl >>
                          \o LongParagraph.text \o << Nl, Nl >>
    /\ OneBlankBetweenNodes

\* C7 amended: the scenario's text is exactly title line, blank line, blank
\* line, upper-cased heading line, blank line, paragraph line, and ends there;
\* and one blank line separates consecutive nodes.
C7_PlainText ==
    /\ RoundTripScenario =>
         Lines(full_text) = << meta.title, <<>>, <<>>, << Word("TITLE") >>, <<>>,
                               LongParagraph.text >>
    /\ OneBlankBetweenNodes

C7_Witness ==
    /\ RoundTripScenario
    /\ full_text /= <<>>

(***************************************************************************)
(* Claims about create_pdf                                                 *)
(***************************************************************************)
\* C5: no text line (title, metadata, heading, paragraph, caption) is drawn
\* below the bottom margin: every drawString has y >= margin.
C5_TextAboveMargin ==
    \A i \in 1..Len(drawn) : drawn[i].kind /= "image" => drawn[i].y >= margin

\* a paragraph ran into the bottom of a page and its next line opened a new one
C5_Witness ==
    \E i \in 2..Len(drawn) :
        /\ drawn[i].kind = "paragraph"
        /\ drawn[i - 1].kind = "paragraph"
        /\ drawn[i].node = drawn[i - 1].node
        /\ drawn[i - 1].y < margin + Pt(11 * 2) + Pt(11 + 2)
        /\ drawn[i].page = drawn[i - 1].page + 1
        /\ drawn[i].y = PAGE_H - margin

\* C6 as stated: every image drawn lies on its page within the margins: its
\* bottom edge y - display_h is not below the bottom margin.
C6_AsStated ==
    \A i \in 1..Len(drawn) : drawn[i].kind = "image" => drawn[i].bottom >= margin

ImageFails(node) == node.typ = "image" /\ ImageAt(node.url).fate /= "ok"

\* the nodes that are to be drawn, in node-stream order
RECURSIVE ToDrawFrom(_)
ToDrawFrom(i) ==
    IF i > Len(nodes) THEN <<>>
    ELSE (IF ImageFails(nodes[i]) THEN <<>> ELSE << i >>) \o ToDrawFrom(i + 1)

\* the nodes as they were first drawn on
RECURSIVE FirstDrawnFrom(_)
FirstDrawnFrom(i) ==
    IF i > Len(drawn) THEN <<>>
    ELSE (IF /\ drawn[i].node > 0
             /\ (i = 1 \/ drawn[i - 1].node /= drawn[i].node)
            THEN << drawn[i].node >> ELSE <<>>) \o FirstDrawnFrom(i + 1)

\* the words drawn for node n as heading or paragraph lines
RECURSIVE WordsDrawnFrom(_, _)
WordsDrawnFrom(n, i) ==
    IF i > Len(drawn) THEN <<>>
    ELSE (IF drawn[i].node = n /\ drawn[i].kind \in {"heading", "paragraph"}
            THEN Split(drawn[i].text) ELSE <<>>) \o WordsDrawnFrom(n, i + 1)

Returned == pc \in {"pdf_done", "pdf_save_failed"}

\* C8: an image that fails to download or decode never ends create_pdf; when
\* the node loop is over, every heading and paragraph (all its words) and every
\* other image has been drawn, in node-stream order, nothing has been drawn for
\* a failed image, and the document is saved unless the write itself fails.
C8_ImageFailureNonFatal ==
    /\ pc /= "pdf_raised"
    /\ (pc = "pdf_done" => saved /\ ~raised)
    /\ Returned =>
         /\ FirstDrawnFrom(1) = ToDrawFrom(1)
         /\ \A n \in 1..Len(nodes) :
              /\ (nodes[n].typ \in {"heading", "paragraph"}
                    => WordsDrawnFrom(n, 1) = Split(nodes[n].text))
              /\ (ImageFails(nodes[n])
                    => \A i \in 1..Len(drawn) : drawn[i].node /= n)

\* a failing image between two drawn nodes, and the document saved
C8_Witness ==
    /\ pc = "pdf_done"
    /\ saved
    /\ Len(nodes) = 3
    /\ nodes[1].typ = "paragraph"
    /\ ImageFails(nodes[2])
    /\ ImageAt(nodes[2].url).fate = "draw_fails"
    /\ nodes[3].typ = "image"
    /\ ~ImageFails(nodes[3])
    /\ FirstDrawnFrom(1) = << 1, 3 >>

\* C9 as stated: once create_pdf has returned or failed, the temporary
\* directory it created no longer exists.
C9_AsStated == Returned => tmpdir /= "exists"

\* this step drew one line of text
LineDrawn ==
    /\ Len(drawn') = Len(drawn) + 1
    /\ drawn'[Len(drawn')].kind /= "image"

\* the kind of the line this step drew, headings told apart by their level
KindDrawn ==
    LET d == drawn'[Len(drawn')]
    IN IF d.kind = "heading" THEN nodes[d.node].level ELSE d.kind

\* how far this step moved the cursor below the line it drew
AdvanceAfterLine == drawn'[Len(drawn')].y - y'

\* this step closed a block of lines: the title, the metadata line, a heading,
\* a paragraph or a caption
BlockClosed ==
    /\ pc \in {"pdf_title", "pdf_meta_end", "pdf_text", "pdf_caption"}
    /\ pc' /= pc

\* this step drew an image
ImageDrawn ==
    /\ Len(drawn') = Len(drawn) + 1
    /\ drawn'[Len(drawn')].kind = "image"

\* the font sizes: title 18, level-1 heading 14, other headings 12, paragraph
\* 11, caption 9, metadata line 9
FontSizeSet ==
    size' = CASE KindDrawn = "title" -> 18
              [] KindDrawn = "h1" -> 14
              [] KindDrawn = "paragraph" -> 11
              [] KindDrawn \in {"caption", "meta"} -> 9
              [] OTHER -> 12

\* the gap after a block of lines, and after an image, is between 6pt and 8pt
GapsSixToEight ==
    /\ BlockClosed => (y - y') \in Pt(6)..Pt(8)
    /\ ImageDrawn => (drawn'[Len(drawn')].bottom - y') \in Pt(6)..Pt(8)

\* C11 as stated: after each drawn line of text the cursor moves down by that
\* line's font size plus 2pt, for every kind of line, with the font sizes
\* above, and the gap after each block is between 6pt and 8pt.
C11_AsStated ==
    [][/\ LineDrawn => FontSizeSet /\ AdvanceAfterLine = Pt(size' + 2)
       /\ GapsSixToEight]_vars

\* C11 amended: after a heading, paragraph or caption line the cursor moves
\* down by the font size plus 2pt (16pt, 14pt, 13pt, 11pt); after a title line
\* by 22pt and after the metadata line by 16pt; the font sizes are as above and
\* the gap after each block is between 6pt and 8pt.
C11_LineAdvance ==
    [][/\ LineDrawn =>
            /\ FontSizeSet
            /\ AdvanceAfterLine = CASE KindDrawn = "title" -> Pt(22)
                                    [] KindDrawn = "meta" -> Pt(16)
                                    [] KindDrawn = "h1" -> Pt(16)
                                    [] KindDrawn = "paragraph" -> Pt(13)
                                    [] KindDrawn = "caption" -> Pt(11)
                                    [] OTHER -> Pt(14)
       /\ GapsSixToEight]_vars

\* a document with a title, a metadata line, a heading, a paragraph and a
\* captioned image has been laid out, a line of each kind drawn and each
\* block closed
C11_Witness ==
    /\ pc = "pdf_done"
    /\ { drawn[i].kind : i \in 1..Len(drawn) }
         = {"title", "meta", "heading", "paragraph", "image", "caption"}

(***************************************************************************)
(* Claims about split_text_to_lines                                        *)
(***************************************************************************)
\* " ".join(ls)
RECURSIVE JoinSpace(_)
JoinSpace(ls) ==
    IF ls = <<>> THEN <<>>
    ELSE IF Len(ls) = 1 THEN ls[1]
    ELSE ls[1] \o << Ws(1) >> \o JoinSpace(Tail(ls))

\* the width of a line
Measure(line) == StringWidth(line, wrap_font, fontsize)

\* the first word of a line
FirstWord(line) == << Head(Split(line)) >>

\* C12: the lines split_text_to_lines returns, joined by single spaces, are
\* the words of the text in their order, each once, a single space apart; no
\* line is empty; a line of two or more words measures at most max_width, so
\* a line wider than max_width is a single word; and the first word of each
\* line after the first does not fit at the end of the line before it.
C12_GreedyWrap ==
    pc = "wrap_done" =>
      /\ JoinSpace(wrapped) = Separated(Split(wrap_text), << Ws(1) >>)
      /\ Split(JoinSpace(wrapped)) = Split(wrap_text)
      /\ \A i \in 1..Len(wrapped) :
           /\ PyLen(wrapped[i]) > 0
           /\ Split(wrapped[i]) /= <<>>
           /\ (Len(Split(wrapped[i])) >= 2 => Measure(wrapped[i]) <= wrap_width)
           /\ (Measure(wrapped[i]) > wrap_width => Len(Split(wrapped[i])) = 1)
      /\ \A i \in 2..Len(wrapped) :
           Measure(wrapped[i - 1] \o << Ws(1) >> \o FirstWord(wrapped[i]))
             > wrap_width

\* a padded text of four words wrapped into three lines: one of two words, and
\* one that is a single word wider than max_width
C12_Witness ==
    /\ pc = "wrap_done"
    /\ Len(Split(wrap_text)) = 4
    /\ wrap_text /= JoinSpace(wrapped)
    /\ Len(wrapped) = 3
    /\ wrap_width > 0
    /\ \E i \in 1..Len(wrapped) : Len(Split(wrapped[i])) = 2
    /\ \E i \in 1..Len(wrapped) : Measure(wrapped[i]) > wrap_width

====
